---- MODULE Spec2Model ----
(***************************************************************************)
(* go-llm-router: the routing / fallback core.                             *)
(*                                                                         *)
(* A Router holds an ordered list of providers.  Query / QueryWithOptions  *)
(* walk the list: a provider without daily quota is skipped and recorded,  *)
(* otherwise the request is sent to it; the first success is returned,     *)
(* every failure is recorded, and a RouterError carrying the records is    *)
(* returned when no provider answered.  Each provider keeps its own quota  *)
(* counters and window starts.                                             *)
(*                                                                         *)
(* Time is counted in ticks.  The backend (HTTP endpoint or SDK) and the   *)
(* tool executor are the environment: what they answer is drawn afresh at  *)
(* every provider attempt.                                                 *)
(***************************************************************************)
EXTENDS Integers, Sequences, FiniteSets, TLC

\* ------------------------------------------------------------------ bounds
MaxProviders == 2      \* longest provider list handed to NewRouter
MaxToolCalls == 2      \* tool calls in one backend response
MaxCalls == 2          \* Query / QueryWithOptions calls in one behaviour
MaxTime == 3           \* the clock stops here

\* ------------------------------------------- program constants, in ticks
MinuteLen == 1         \* time.Minute
DayLen == 2            \* 24 * time.Hour

\* ------------------------------------------------------------- vocabulary
Kinds == {"Gemini", "OpenRouter", "FunctionCalling"}

NoError == "nil"
ErrNoProviders == "no providers configured"
ErrNoRemaining == "no remaining requests"
ErrRouter == "RouterError"
ErrCreateRequest == "failed to create request"
ErrStatus == "API request failed with status"
ErrParse == "failed to parse response"
ErrNoChoices == "no response choices received"
ErrGenerate == "failed to generate content"

\* what the backend can answer to one request
Statuses == {"transportError", "httpStatus", "badBody", "noChoices", "ok"}
Contents == {"text"}

Response ==
    [status : Statuses, toolCalls : 0..MaxToolCalls, content : Contents \cup {""}]

NoResponse == [status |-> "transportError", toolCalls |-> 0, content |-> ""]

\* a response that is not a 200 with a parsable choice carries nothing
\* else; the content of one that is may be empty
Responses ==
    {r \in Response : r.status # "ok" => r.toolCalls = 0 /\ r.content = ""}

\* *provider.QueryResult; isNil is the nil pointer
NilResult == [isNil |-> TRUE, Content |-> "", Model |-> "", ToolCalls |-> 0]

Truncate(t, d) == t - (t % d)

VARIABLES
    now,         \* the wall clock
    router,      \* what the last NewRouter returned, and what it was given
    providers,   \* Router.providers: the provider objects, in router order
    call,        \* the Query / QueryWithOptions call in progress or last ended
    calls        \* how many calls were started, and what happened in them

vars == <<now, router, providers, call, calls>>

\* ------------------------------------------------------ provider objects
\* the arguments of newGeminiProvider / newOpenRouterProvider /
\* newFunctionCallingProvider the router's decisions depend on; these are
\* the providers an application builds here
ProviderConfigs ==
    { [kind |-> "Gemini", rank |-> 2, maxDailyRequests |-> 0,
       maxRequestsPerMinute |-> 0, maxTokensPerMinute |-> 0,
       models |-> <<"m1">>, toolExecutor |-> FALSE],
      [kind |-> "Gemini", rank |-> 1, maxDailyRequests |-> 1,
       maxRequestsPerMinute |-> 0, maxTokensPerMinute |-> 0,
       models |-> <<"m1">>, toolExecutor |-> FALSE],
      [kind |-> "OpenRouter", rank |-> 1, maxDailyRequests |-> 0,
       maxRequestsPerMinute |-> 0, maxTokensPerMinute |-> 1,
       models |-> <<"m1", "m2">>, toolExecutor |-> FALSE],
      [kind |-> "FunctionCalling", rank |-> 2, maxDailyRequests |-> 2,
       maxRequestsPerMinute |-> 1, maxTokensPerMinute |-> 0,
       models |-> <<"m1">>, toolExecutor |-> TRUE] }

\* the lists handed to NewRouter: up to MaxProviders different providers
ProviderLists ==
    UNION {{f \in [1..n -> ProviderConfigs] :
               \A a, b \in 1..n : a # b => f[a] # f[b]} : n \in 0..MaxProviders}

\* the constructors: counters at zero, window starts truncated from now
newProvider(c, t) ==
    [kind |-> c.kind, rank |-> c.rank,
     models |-> c.models,
     maxDailyRequests |-> c.maxDailyRequests,
     maxRequestsPerMinute |-> c.maxRequestsPerMinute,
     maxTokensPerMinute |-> c.maxTokensPerMinute,
     toolExecutor |-> c.toolExecutor,
     requestsToday |-> 0,
     requestsThisMinute |-> 0,
     tokensThisMinute |-> 0,
     lastReset |-> Truncate(t, DayLen),
     lastMinuteReset |-> Truncate(t, MinuteLen)]

Name(p) ==
    CASE p.kind = "Gemini" -> "Gemini"
      [] p.kind = "OpenRouter" -> "OpenRouter"
      [] p.kind = "FunctionCalling" -> "FunctionCalling"
      [] p.kind = "Custom" -> p.name
      [] OTHER -> ""

GetRank(p) == p.rank

\* a daily reset that moves the window start on by one day
resetDailyStepwise(p, t) ==
    IF t - p.lastReset > DayLen
    THEN [p EXCEPT !.requestsToday = 0, !.lastReset = @ + DayLen]
    ELSE p

\* the daily window check that opens QueryWithOptions and, for OpenRouter
\* and FunctionCalling, HasRemainingRequests
resetDaily(p, t) ==
    IF t - p.lastReset > DayLen
    THEN [p EXCEPT !.requestsToday = 0, !.lastReset = Truncate(t, DayLen)]
    ELSE p

\* ---------------------------------------------------- HasRemainingRequests
GeminiHasRemainingRequests(p, t) ==
    [prov |-> p, ok |-> p.requestsToday < p.maxDailyRequests]

OpenRouterHasRemainingRequests(p, t) ==
    LET q == resetDaily(p, t)
    IN  [prov |-> q,
         ok |-> q.maxDailyRequests = 0 \/ q.requestsToday < q.maxDailyRequests]

FunctionCallingHasRemainingRequests(p, t) ==
    LET q == resetDaily(p, t)
    IN  [prov |-> q,
         ok |-> q.maxDailyRequests = 0 \/ q.requestsToday < q.maxDailyRequests]

\* provider.Provider.HasRemainingRequests, dispatched on the dynamic type
HasRemainingRequests(p, t) ==
    CASE p.kind = "Gemini" -> GeminiHasRemainingRequests(p, t)
      [] p.kind = "OpenRouter" -> OpenRouterHasRemainingRequests(p, t)
      [] OTHER -> FunctionCallingHasRemainingRequests(p, t)

\* a minute window reset that also clears the daily counter
resetMinuteAll(p, t) ==
    IF t - p.lastMinuteReset > MinuteLen
    THEN [p EXCEPT !.requestsThisMinute = 0, !.tokensThisMinute = 0,
                   !.requestsToday = 0,
                   !.lastMinuteReset = Truncate(t, MinuteLen)]
    ELSE p

\* a minute window reset that clears the request counter alone
resetMinuteRequestsOnly(p, t) ==
    IF t - p.lastMinuteReset > MinuteLen
    THEN [p EXCEPT !.requestsThisMinute = 0,
                   !.lastMinuteReset = Truncate(t, MinuteLen)]
    ELSE p

\* the minute window check that opens both per-minute checks of OpenRouter
\* and FunctionCalling
resetMinute(p, t) ==
    IF t - p.lastMinuteReset > MinuteLen
    THEN [p EXCEPT !.requestsThisMinute = 0, !.tokensThisMinute = 0,
                   !.lastMinuteReset = Truncate(t, MinuteLen)]
    ELSE p

\* HasRemainingRequestsPerMinute of OpenRouter and FunctionCalling
HasRemainingRequestsPerMinute(p, t) ==
    LET q == resetMinute(p, t)
    IN  [prov |-> q,
         ok |-> \/ q.maxRequestsPerMinute = 0
                \/ q.requestsThisMinute < q.maxRequestsPerMinute]

\* HasRemainingTokensPerMinute of OpenRouter and FunctionCalling
HasRemainingTokensPerMinute(p, estimatedTokens, t) ==
    LET q == resetMinute(p, t)
    IN  [prov |-> q,
         ok |-> \/ q.maxTokensPerMinute = 0
                \/ q.tokensThisMinute + estimatedTokens <= q.maxTokensPerMinute]

\* ------------------------------------------------ one request to a backend
\* FunctionCallingProvider.makeRequest: the counters move once the status
\* is 200, before the body is parsed
makeRequest(p, model, resp) ==
    LET counted == [p EXCEPT !.requestsToday = @ + 1,
                             !.requestsThisMinute = @ + 1]
    IN  CASE resp.status = "transportError" ->
               [prov |-> p, result |-> NilResult, err |-> ErrCreateRequest]
          [] resp.status = "httpStatus" ->
               [prov |-> p, result |-> NilResult, err |-> ErrStatus]
          [] resp.status = "badBody" ->
               [prov |-> counted, result |-> NilResult, err |-> ErrParse]
          [] resp.status = "noChoices" ->
               [prov |-> counted, result |-> NilResult, err |-> ErrNoChoices]
          [] OTHER ->
               [prov |-> counted,
                result |-> [isNil |-> FALSE, Content |-> resp.content,
                            Model |-> model, ToolCalls |-> resp.toolCalls],
                err |-> NoError]

\* what the environment answers during the attempt on one model: the first
\* response, the tool calls the executor completes, the second response
ModelScripts ==
    {s \in [first : Responses, exec : SUBSET (1..MaxToolCalls),
            second : Responses] :
        /\ s.exec \subseteq 1..s.first.toolCalls
        /\ s.exec = {} => s.second = NoResponse}

\* Gemini and OpenRouter send one request per model and run no tools; the
\* Gemini SDK either fails or hands back a response
ScriptsOf(p) ==
    CASE p.kind = "Gemini" ->
           {s \in ModelScripts : /\ s.exec = {}
                                 /\ s.first.status \in {"httpStatus", "ok"}}
      [] p.kind = "OpenRouter" -> {s \in ModelScripts : s.exec = {}}
      [] OTHER -> {s \in ModelScripts : s.exec # {} => p.toolExecutor}

\* a request made under a cancelled context comes back with the context's
\* error, from the HTTP client or from the Gemini SDK
ScriptsUnder(p, ctx) ==
    IF ctx = "cancelled"
    THEN {s \in ScriptsOf(p) :
             s.first.status = IF p.kind = "Gemini" THEN "httpStatus"
                                                   ELSE "transportError"}
    ELSE ScriptsOf(p)

\* modelsToUse
ModelsToUse(p, options) ==
    IF options.ForceModel # "" THEN <<options.ForceModel>> ELSE p.models

\* the members of a set of numbers, in ascending order
RECURSIVE AscSeq(_)
AscSeq(S) ==
    IF S = {} THEN <<>>
    ELSE LET m == CHOOSE x \in S : \A y \in S : x <= y
         IN  <<m>> \o AscSeq(S \ {m})

\* a request as the backend sees it: the model, and the results of the
\* tool message when there is one (tool calls are named by their place in
\* the response)
Request(model, toolResults) == [model |-> model, toolResults |-> toolResults]

\* the body of a request: the model and the messages in the backend's
\* format
RequestBody(model, messages) == [model |-> model, messages |-> messages]

\* apiMessages / openRouterMessages: one entry per message, its role and
\* its content
ApiMessages(messages) ==
    [k \in DOMAIN messages.list |->
        [role |-> messages.list[k].Role, content |-> messages.list[k].Content]]

\* toolMessage
ToolMessage(toolResults) == [role |-> "tool", tool_results |-> toolResults]

\* convertRoleToGemini
convertRoleToGemini(role) ==
    CASE role = "system" -> "user"
      [] role = "user" -> "user"
      [] role = "assistant" -> "model"
      [] OTHER -> "user"

\* genaiMessages: one content per message, a text part when there is text
GenaiMessages(messages) ==
    [k \in DOMAIN messages.list |->
        [role |-> convertRoleToGemini(messages.list[k].Role),
         parts |-> IF messages.list[k].Content # ""
                   THEN <<messages.list[k].Content>> ELSE <<>>]]

\* a relay whose follow-up request holds the tool message alone
FunctionCallingAttemptFreshFollowUp(p, model, s, messages) ==
    LET r1 == makeRequest(p, model, s.first)
        first == Request(model, <<>>)
        body == RequestBody(model, ApiMessages(messages))
    IN  IF r1.err # NoError
        THEN [prov |-> r1.prov, result |-> NilResult, err |-> r1.err,
              reqs |-> 1, sent |-> <<first>>, phases |-> 0,
              bodies |-> <<body>>]
        ELSE IF r1.result.ToolCalls > 0 /\ p.toolExecutor
             THEN LET toolResults == s.exec \cap (1..r1.result.ToolCalls)
                  IN  IF toolResults # {}
                      THEN LET r2 == makeRequest(r1.prov, model, s.second)
                           IN  [prov |-> r2.prov, result |-> r2.result,
                                err |-> r2.err, reqs |-> 2,
                                sent |-> <<first,
                                           Request(model, AscSeq(toolResults))>>,
                                phases |-> 1,
                                bodies |-> <<body,
                                    RequestBody(model,
                                        <<ToolMessage(AscSeq(toolResults))>>)>>]
                      ELSE [prov |-> r1.prov, result |-> r1.result,
                            err |-> NoError, reqs |-> 1,
                            sent |-> <<first>>, phases |-> 1,
                            bodies |-> <<body>>]
             ELSE [prov |-> r1.prov, result |-> r1.result,
                   err |-> NoError, reqs |-> 1, sent |-> <<first>>,
                   phases |-> 0, bodies |-> <<body>>]

\* a relay in which a tool call that fails makes the attempt fail
FunctionCallingAttemptStrict(p, model, s, messages) ==
    LET r1 == makeRequest(p, model, s.first)
        first == Request(model, <<>>)
        body == RequestBody(model, ApiMessages(messages))
    IN  IF r1.err # NoError
        THEN [prov |-> r1.prov, result |-> NilResult, err |-> r1.err,
              reqs |-> 1, sent |-> <<first>>, phases |-> 0,
              bodies |-> <<body>>]
        ELSE IF r1.result.ToolCalls > 0 /\ p.toolExecutor
             THEN IF s.exec = 1..r1.result.ToolCalls
                  THEN LET r2 == makeRequest(r1.prov, model, s.second)
                       IN  [prov |-> r2.prov, result |-> r2.result,
                            err |-> r2.err, reqs |-> 2,
                            sent |-> <<first, Request(model, AscSeq(s.exec))>>,
                            phases |-> 1,
                            bodies |-> <<body,
                                RequestBody(model,
                                    Append(ApiMessages(messages),
                                           ToolMessage(AscSeq(s.exec))))>>]
                  ELSE [prov |-> r1.prov, result |-> NilResult,
                        err |-> ErrCreateRequest, reqs |-> 1,
                        sent |-> <<first>>, phases |-> 1, bodies |-> <<body>>]
             ELSE [prov |-> r1.prov, result |-> r1.result,
                   err |-> NoError, reqs |-> 1, sent |-> <<first>>,
                   phases |-> 0, bodies |-> <<body>>]

\* a relay that asks the backend again although no tool gave a result
FunctionCallingAttemptAlwaysRelays(p, model, s, messages) ==
    LET r1 == makeRequest(p, model, s.first)
        first == Request(model, <<>>)
        body == RequestBody(model, ApiMessages(messages))
    IN  IF r1.err # NoError
        THEN [prov |-> r1.prov, result |-> NilResult, err |-> r1.err,
              reqs |-> 1, sent |-> <<first>>, phases |-> 0,
              bodies |-> <<body>>]
        ELSE IF r1.result.ToolCalls > 0 /\ p.toolExecutor
             THEN LET toolResults == s.exec \cap (1..r1.result.ToolCalls)
                      r2 == makeRequest(r1.prov, model, s.second)
                  IN  [prov |-> r2.prov, result |-> r2.result,
                       err |-> r2.err, reqs |-> 2,
                       sent |-> <<first, Request(model, AscSeq(toolResults))>>,
                       phases |-> 1,
                       bodies |-> <<body,
                           RequestBody(model,
                               Append(ApiMessages(messages),
                                      ToolMessage(AscSeq(toolResults))))>>]
             ELSE [prov |-> r1.prov, result |-> r1.result,
                   err |-> NoError, reqs |-> 1, sent |-> <<first>>,
                   phases |-> 0, bodies |-> <<body>>]

\* one round of the model loop of FunctionCallingProvider.QueryWithOptions;
\* sent lists the requests made, phases counts the runs of the tool
\* executor over a response's tool calls
FunctionCallingAttempt(p, model, s, messages) ==
    LET r1 == makeRequest(p, model, s.first)
        first == Request(model, <<>>)
        body == RequestBody(model, ApiMessages(messages))
    IN  IF r1.err # NoError
        THEN [prov |-> r1.prov, result |-> NilResult, err |-> r1.err,
              reqs |-> 1, sent |-> <<first>>, phases |-> 0,
              bodies |-> <<body>>]
        ELSE IF r1.result.ToolCalls > 0 /\ p.toolExecutor
             THEN LET toolResults == s.exec \cap (1..r1.result.ToolCalls)
                  IN  IF toolResults # {}
                      THEN LET r2 == makeRequest(r1.prov, model, s.second)
                           IN  [prov |-> r2.prov, result |-> r2.result,
                                err |-> r2.err, reqs |-> 2,
                                sent |-> <<first,
                                           Request(model, AscSeq(toolResults))>>,
                                phases |-> 1,
                                bodies |-> <<body,
                                    RequestBody(model,
                                        Append(ApiMessages(messages),
                                               ToolMessage(AscSeq(toolResults))))>>]
                      ELSE [prov |-> r1.prov, result |-> r1.result,
                            err |-> NoError, reqs |-> 1,
                            sent |-> <<first>>, phases |-> 1,
                            bodies |-> <<body>>]
             ELSE [prov |-> r1.prov, result |-> r1.result,
                   err |-> NoError, reqs |-> 1, sent |-> <<first>>,
                   phases |-> 0, bodies |-> <<body>>]

\* estimateTokensForMessages: a size taken from the messages
estimateTokensForMessages(messages) == messages.tokens

\* one round of the model loop of OpenRouterProvider.QueryWithOptions
OpenRouterAttempt(p, model, s, messages) ==
    LET counted == [p EXCEPT !.requestsToday = @ + 1,
                             !.requestsThisMinute = @ + 1,
                             !.tokensThisMinute =
                                 @ + estimateTokensForMessages(messages)]
        resp == s.first
    IN  CASE resp.status = "transportError" ->
               [prov |-> p, result |-> NilResult, err |-> ErrCreateRequest,
                reqs |-> 1, sent |-> <<Request(model, <<>>)>>,
                phases |-> 0,
                bodies |-> <<RequestBody(model, ApiMessages(messages))>>]
          [] resp.status = "httpStatus" ->
               [prov |-> p, result |-> NilResult, err |-> ErrStatus,
                reqs |-> 1, sent |-> <<Request(model, <<>>)>>,
                phases |-> 0,
                bodies |-> <<RequestBody(model, ApiMessages(messages))>>]
          [] resp.status = "badBody" ->
               [prov |-> counted, result |-> NilResult, err |-> ErrParse,
                reqs |-> 1, sent |-> <<Request(model, <<>>)>>,
                phases |-> 0,
                bodies |-> <<RequestBody(model, ApiMessages(messages))>>]
          [] resp.status = "noChoices" ->
               [prov |-> counted, result |-> NilResult, err |-> ErrNoChoices,
                reqs |-> 1, sent |-> <<Request(model, <<>>)>>,
                phases |-> 0,
                bodies |-> <<RequestBody(model, ApiMessages(messages))>>]
          [] OTHER ->
               [prov |-> counted,
                result |-> [isNil |-> FALSE, Content |-> resp.content,
                            Model |-> model, ToolCalls |-> resp.toolCalls],
                err |-> NoError, reqs |-> 1, sent |-> <<Request(model, <<>>)>>,
                phases |-> 0,
                bodies |-> <<RequestBody(model, ApiMessages(messages))>>]

\* one round of the model loop of GeminiProvider.QueryWithOptions;
\* validateGeminiRole rejects no role, convertRoleToGemini maps every role
\* to a valid one
GeminiAttempt(p, model, s, messages) ==
    IF s.first.status # "ok"
    THEN [prov |-> p, result |-> NilResult, err |-> ErrGenerate, reqs |-> 1,
          sent |-> <<Request(model, <<>>)>>, phases |-> 0,
          bodies |-> <<RequestBody(model, GenaiMessages(messages))>>]
    ELSE [prov |-> [p EXCEPT !.requestsToday = @ + 1],
          result |-> [isNil |-> FALSE, Content |-> s.first.content,
                      Model |-> model, ToolCalls |-> s.first.toolCalls],
          err |-> NoError, reqs |-> 1,
          sent |-> <<Request(model, <<>>)>>, phases |-> 0,
          bodies |-> <<RequestBody(model, GenaiMessages(messages))>>]

Attempt(p, model, s, messages) ==
    CASE p.kind = "Gemini" -> GeminiAttempt(p, model, s, messages)
      [] p.kind = "OpenRouter" -> OpenRouterAttempt(p, model, s, messages)
      [] OTHER -> FunctionCallingAttempt(p, model, s, messages)

\* a model loop that gives up at the first model that fails
TryModelsNoFallback(p, models, k, script, messages, outerErr, st) ==
    IF k > Len(models)
    THEN [prov |-> p, result |-> NilResult, err |-> outerErr,
          reqs |-> st.reqs, fails |-> st.fails,
          sent |-> st.sent, phases |-> st.phases,
          bodies |-> st.bodies]
    ELSE LET a == Attempt(p, models[k], script[k], messages)
         IN  [prov |-> a.prov, result |-> a.result, err |-> a.err,
              reqs |-> st.reqs + a.reqs,
              fails |-> IF a.err = NoError THEN st.fails ELSE st.fails + 1,
              sent |-> st.sent \o a.sent,
              phases |-> st.phases + a.phases,
              bodies |-> st.bodies \o a.bodies]

\* the model loop: the first model that answers ends it, a failing model
\* leaves its error in outerErr and the loop goes on.  reqs and fails count
\* the requests made and the models that failed.
RECURSIVE TryModels(_, _, _, _, _, _, _)
TryModels(p, models, k, script, messages, outerErr, st) ==
    IF k > Len(models)
    THEN [prov |-> p, result |-> NilResult, err |-> outerErr,
          reqs |-> st.reqs, fails |-> st.fails,
          sent |-> st.sent, phases |-> st.phases,
          bodies |-> st.bodies]
    ELSE LET a == Attempt(p, models[k], script[k], messages)
         IN  IF a.err = NoError
             THEN [prov |-> a.prov, result |-> a.result, err |-> NoError,
                   reqs |-> st.reqs + a.reqs, fails |-> st.fails,
                   sent |-> st.sent \o a.sent,
                   phases |-> st.phases + a.phases,
                   bodies |-> st.bodies \o a.bodies]
             ELSE TryModels(a.prov, models, k + 1, script, messages, a.err,
                            [reqs |-> st.reqs + a.reqs,
                             fails |-> st.fails + 1,
                             sent |-> st.sent \o a.sent,
                             phases |-> st.phases + a.phases,
                             bodies |-> st.bodies \o a.bodies])

\* provider.Provider.QueryWithOptions: the daily window check, then the
\* model loop
QueryWithOptions(p, messages, options, script, t) ==
    TryModels(resetDaily(p, t), ModelsToUse(p, options), 1, script, messages,
              NoError,
              [reqs |-> 0, fails |-> 0, sent |-> <<>>, phases |-> 0,
               bodies |-> <<>>])

\* ------------------------------------------------------------- the router
\* the list ordered by descending rank, equal ranks in the order given
SortedByRank(ps) ==
    LET n == Len(ps)
        before(k) == Cardinality({j \in 1..n :
                        \/ GetRank(ps[j]) > GetRank(ps[k])
                        \/ GetRank(ps[j]) = GetRank(ps[k]) /\ j < k})
    IN  [pos \in 1..n |-> ps[CHOOSE k \in 1..n : before(k) = pos - 1]]

\* NewRouter without the emptiness test
NewRouterUnchecked(ps) ==
    [router |-> TRUE, providers |-> ps, err |-> NoError]

\* NewRouter sorting its providers by rank
NewRouterSorted(ps) ==
    IF Len(ps) = 0
    THEN [router |-> FALSE, providers |-> <<>>, err |-> ErrNoProviders]
    ELSE [router |-> TRUE, providers |-> SortedByRank(ps), err |-> NoError]

\* NewRouter: no router without providers, otherwise the list as given
NewRouter(ps) ==
    IF Len(ps) = 0
    THEN [router |-> FALSE, providers |-> <<>>, err |-> ErrNoProviders]
    ELSE [router |-> TRUE, providers |-> ps, err |-> NoError]

Placeholder == <<"Provider 1", "Provider 2", "Provider 3", "Provider 4">>

\* providerName of the loop body
providerName(p, i) == IF Name(p) = "" THEN Placeholder[i] ELSE Name(p)

ForceModels == {""}
MessageLists ==
    {[tokens |-> 1, list |-> <<[Role |-> "user", Content |-> "hi"]>>]}

\* trace is the record of what the call did: the quota checks and their
\* answers, the sends and what the provider returned
Event(op, idx, ok, result, err) ==
    [op |-> op, idx |-> idx, ok |-> ok, result |-> result, err |-> err]

IdleCall ==
    [pc |-> "idle", ctx |-> "live", legacy |-> FALSE,
     messages |-> [tokens |-> 1,
                   list |-> <<[Role |-> "user", Content |-> "hi"]>>],
     options |-> [ForceModel |-> ""], i |-> 0, Errors |-> <<>>,
     ret |-> [result |-> NilResult, err |-> NoError, Errors |-> <<>>],
     trace |-> <<>>]

\* the end of the call returning a plain error and no failure records
finishPlain(c) ==
    [c EXCEPT !.pc = "done",
              !.ret = [result |-> NilResult, err |-> ErrNoProviders,
                       Errors |-> <<>>]]

\* after the loop: the RouterError with the collected records
finish(c) ==
    IF Len(c.Errors) = 0
    THEN [c EXCEPT !.pc = "done",
                   !.ret = [result |-> NilResult, err |-> ErrNoProviders,
                            Errors |-> <<>>]]
    ELSE [c EXCEPT !.pc = "done",
                   !.ret = [result |-> NilResult, err |-> ErrRouter,
                            Errors |-> c.Errors]]

\* entry of Query (legacy) and QueryWithOptions: the messages are copied,
\* Query builds its options from temperature and forceModel, the failure
\* list starts empty; the loop over no providers ends at once
begin(legacy, messages, options, n) ==
    LET c == [IdleCall EXCEPT !.pc = "check", !.legacy = legacy,
                              !.messages = messages, !.options = options,
                              !.i = 1]
    IN  IF n = 0 THEN finish(c) ELSE c

\* a loop that gives a provider whose send failed one more try
nextRetries(c, n) ==
    IF /\ c.trace # <<>>
       /\ c.trace[Len(c.trace)].op = "send"
       /\ Cardinality({k \in DOMAIN c.trace :
                          c.trace[k].op = "send" /\ c.trace[k].idx = c.i}) = 1
    THEN [c EXCEPT !.pc = "send"]
    ELSE IF c.i < n THEN [c EXCEPT !.pc = "check", !.i = @ + 1]
                    ELSE finish(c)

\* a loop that starts over at the first provider after the last one
nextStartsOver(c, n) ==
    IF c.i < n THEN [c EXCEPT !.pc = "check", !.i = @ + 1]
               ELSE [c EXCEPT !.pc = "check", !.i = 1]

\* the range loop moves to the next provider, or ends
next(c, n) ==
    IF c.i < n THEN [c EXCEPT !.pc = "check", !.i = @ + 1] ELSE finish(c)

\* a skip that leaves no failure record
skippedUnrecorded(c, name, n) == next(c, n)

\* the quota check of the loop body said no: record and continue
skipped(c, name, n) ==
    next([c EXCEPT !.Errors = Append(@, [ProviderName |-> name,
                                         Error |-> ErrNoRemaining])], n)

\* a loop body that sends whatever the quota check said
checkedAlwaysSends(c, ok, name, n) ==
    [c EXCEPT !.pc = "send",
              !.trace = Append(@, Event("check", c.i, ok, NilResult, NoError))]

\* the loop body up to the send: the provider's name, its quota check, and
\* the skip when the check says no
checked(c, ok, name, n) ==
    LET c1 == [c EXCEPT !.trace =
                   Append(@, Event("check", c.i, ok, NilResult, NoError))]
    IN  IF ~ok THEN skipped(c1, name, n) ELSE [c1 EXCEPT !.pc = "send"]

\* a Query that hands over the content and no model name
deliveredContentOnly(legacy, result) ==
    IF legacy THEN [result EXCEPT !.ToolCalls = 0, !.Model = ""] ELSE result

\* what the caller gets from a successful provider: QueryWithOptions hands
\* the result over, Query its content and model
delivered(legacy, result) ==
    IF legacy THEN [result EXCEPT !.ToolCalls = 0] ELSE result

\* a loop that keeps the result and goes on to the next provider
returnedKeepsGoing(c, o, name, n) ==
    LET ev == Event("send", c.i, o.err = NoError, o.result, o.err)
    IN  IF o.err = NoError
        THEN IF c.i < n
             THEN [c EXCEPT !.pc = "check", !.i = @ + 1,
                            !.ret = [result |-> delivered(c.legacy, o.result),
                                     err |-> NoError, Errors |-> <<>>],
                            !.trace = Append(@, ev)]
             ELSE [c EXCEPT !.pc = "done",
                            !.ret = [result |-> delivered(c.legacy, o.result),
                                     err |-> NoError, Errors |-> <<>>],
                            !.trace = Append(@, ev)]
        ELSE next([c EXCEPT !.Errors = Append(@, [ProviderName |-> name,
                                                  Error |-> o.err]),
                            !.trace = Append(@, ev)], n)

\* a loop that gives up when a provider's request could not be made
returnedStopsOnTransport(c, o, name, n) ==
    LET ev == Event("send", c.i, o.err = NoError, o.result, o.err)
        c1 == [c EXCEPT !.Errors = Append(@, [ProviderName |-> name,
                                              Error |-> o.err]),
                        !.trace = Append(@, ev)]
    IN  IF o.err = NoError
        THEN [c EXCEPT !.pc = "done",
                       !.ret = [result |-> delivered(c.legacy, o.result),
                                err |-> NoError, Errors |-> <<>>],
                       !.trace = Append(@, ev)]
        ELSE IF o.err = ErrCreateRequest THEN finish(c1) ELSE next(c1, n)

\* the provider's QueryWithOptions returned: success ends the call, a
\* failure is recorded and the loop continues
returned(c, o, name, n) ==
    LET ev == Event("send", c.i, o.err = NoError, o.result, o.err)
    IN  IF o.err = NoError
        THEN [c EXCEPT !.pc = "done",
                       !.ret = [result |-> delivered(c.legacy, o.result),
                                err |-> NoError, Errors |-> <<>>],
                       !.trace = Append(@, ev)]
        ELSE next([c EXCEPT !.Errors = Append(@, [ProviderName |-> name,
                                                  Error |-> o.err]),
                            !.trace = Append(@, ev)], n)

\* a router check that also asks the per-minute request check
RouterHasRemainingAllLimits(ps, k, t) ==
    [providers |-> ps,
     ok |-> \E i \in k..Len(ps) :
               /\ HasRemainingRequests(ps[i], t).ok
               /\ \/ ps[i].kind = "Gemini"
                  \/ HasRemainingRequestsPerMinute(ps[i], t).ok]

\* Router.HasRemainingRequests: the providers are asked in order until one
\* says yes
RECURSIVE RouterHasRemainingRequests(_, _, _)
RouterHasRemainingRequests(ps, k, t) ==
    IF k > Len(ps)
    THEN [providers |-> ps, ok |-> FALSE]
    ELSE LET h == HasRemainingRequests(ps[k], t)
             qs == [ps EXCEPT ![k] = h.prov]
         IN  IF h.ok THEN [providers |-> qs, ok |-> TRUE]
                     ELSE RouterHasRemainingRequests(qs, k + 1, t)

\* ---------------------------------------------------------------- actions
Init ==
    /\ now = 0
    /\ router = [called |-> FALSE, built |-> FALSE, err |-> NoError,
                 args |-> <<>>]
    /\ providers = <<>>
    /\ call = IdleCall
    /\ calls = [n |-> 0, clean |-> TRUE, reset |-> FALSE]

Tick ==
    /\ now < MaxTime
    /\ now' = now + 1
    /\ UNCHANGED <<router, providers, call, calls>>

\* the application builds its providers and hands them to NewRouter
DoNewRouter ==
    /\ ~router.built
    /\ \E cfgs \in ProviderLists :
         LET r == NewRouter([k \in 1..Len(cfgs) |->
                                newProvider(cfgs[k], now)])
         IN  /\ router' = [called |-> TRUE, built |-> r.router,
                           err |-> r.err, args |-> cfgs]
             /\ providers' = r.providers
    /\ UNCHANGED <<now, call, calls>>

\* Router.Query (legacy = TRUE) or Router.QueryWithOptions is called
BeginQuery ==
    /\ router.built
    /\ call.pc \in {"idle", "done"}
    /\ calls.n < MaxCalls
    /\ \E legacy \in BOOLEAN, m \in MessageLists, f \in ForceModels :
         call' = begin(legacy, m, [ForceModel |-> f], Len(providers))
    /\ calls' = [calls EXCEPT !.n = @ + 1]
    /\ UNCHANGED <<now, router, providers>>

\* the loop body up to the quota check
CheckQuota ==
    /\ call.pc = "check"
    /\ LET p == providers[call.i]
           h == HasRemainingRequests(p, now)
       IN  /\ providers' = [providers EXCEPT ![call.i] = h.prov]
           /\ call' = checked(call, h.ok, providerName(p, call.i),
                              Len(providers))
           /\ calls' = [calls EXCEPT
                          !.reset = @ \/ h.prov.lastReset # p.lastReset]
    /\ UNCHANGED <<now, router>>

\* the provider's QueryWithOptions, and what the loop does with its return
Send ==
    /\ call.pc = "send"
    /\ LET p == providers[call.i]
       IN  \E script \in [1..Len(p.models) -> ScriptsUnder(p, call.ctx)] :
              LET o == QueryWithOptions(p, call.messages, call.options,
                                        script, now)
              IN  /\ providers' = [providers EXCEPT ![call.i] = o.prov]
                  /\ call' = returned(call, o, providerName(p, call.i),
                                      Len(providers))
                  /\ calls' = [calls EXCEPT
                                 !.clean = @ /\ o.err = NoError /\ o.fails = 0,
                                 !.reset = @ \/ o.prov.lastReset # p.lastReset]
    /\ UNCHANGED <<now, router>>

\* the caller cancels the context of the call in progress, or its deadline
\* passes
Cancel ==
    /\ call.pc \in {"check", "send"}
    /\ call.ctx = "live"
    /\ call' = [call EXCEPT !.ctx = "cancelled"]
    /\ UNCHANGED <<now, router, providers, calls>>

\* the application asks Router.HasRemainingRequests between two calls
DoHasRemainingRequests ==
    /\ router.built
    /\ call.pc \in {"idle", "done"}
    /\ LET h == RouterHasRemainingRequests(providers, 1, now)
       IN  /\ providers' = h.providers
           /\ calls' = [calls EXCEPT
                          !.reset = @ \/ h.providers # providers]
    /\ UNCHANGED <<now, router, call>>

Next ==
    \/ Tick \/ DoNewRouter \/ BeginQuery \/ CheckQuota \/ Send
    \/ Cancel \/ DoHasRemainingRequests

Spec == Init /\ [][Next]_vars

\* ------------------------------------------------------------ Router.Close
\* A router in use by an application that also calls Router.Close.  Here
\* calls also counts the Router.Close calls (closeCalls) and, for every
\* provider, the calls of its Close method (closed).
MaxCloses == 2         \* Router.Close calls in one behaviour

\* a Router.Close that stops at the first provider whose Close went wrong
RouterCloseStopsAtFailure(closed, failing) ==
    [i \in DOMAIN closed |->
        IF \E j \in failing : j < i THEN closed[i] ELSE closed[i] + 1]

\* Router.Close: the Close method of every provider is called in turn;
\* Close returns nothing, so what goes wrong inside one (failing) is not
\* seen by the loop
RouterClose(closed, failing) ==
    [i \in DOMAIN closed |-> closed[i] + 1]

CloseInit ==
    /\ now = 0
    /\ \E cfgs \in ProviderLists :
          LET r == NewRouter([k \in 1..Len(cfgs) |->
                                 newProvider(cfgs[k], now)])
          IN  /\ r.router
              /\ router = [called |-> TRUE, built |-> TRUE, err |-> r.err,
                           args |-> cfgs]
              /\ providers = r.providers
              /\ calls = [n |-> 0, clean |-> TRUE, reset |-> FALSE,
                          closeCalls |-> 0,
                          closed |-> [i \in 1..Len(cfgs) |-> 0]]
    /\ call = IdleCall

\* the application calls Router.Close between two calls
DoClose ==
    /\ call.pc \in {"idle", "done"}
    /\ calls.closeCalls < MaxCloses
    /\ \E failing \in SUBSET (1..Len(providers)) :
          calls' = [calls EXCEPT !.closeCalls = @ + 1,
                                 !.closed = RouterClose(@, failing)]
    /\ UNCHANGED <<now, router, providers, call>>

CloseNext ==
    \/ Tick \/ BeginQuery \/ CheckQuota \/ Send
    \/ DoHasRemainingRequests \/ DoClose

SpecClose == CloseInit /\ [][CloseNext]_vars

\* --------------------------------------- providers of the application
\* A router over providers the application implements itself, next to a
\* built-in one.  Such a provider answers Name() as it likes, with the
\* empty string too; its quota and its requests are taken to work like
\* those of the built-in HTTP providers.
CustomConfigs ==
    { [kind |-> "Custom", name |-> "", rank |-> 1, maxDailyRequests |-> 1,
       maxRequestsPerMinute |-> 0, maxTokensPerMinute |-> 0,
       models |-> <<"m1">>, toolExecutor |-> FALSE],
      [kind |-> "Custom", name |-> "Provider 2", rank |-> 1,
       maxDailyRequests |-> 0,
       maxRequestsPerMinute |-> 0, maxTokensPerMinute |-> 0,
       models |-> <<"m1">>, toolExecutor |-> FALSE] }

newCustomProvider(c, t) == [name |-> c.name] @@ newProvider(c, t)

NamesInit ==
    /\ now = 0
    /\ \E n \in 1..MaxProviders :
          \E cfgs \in [1..n -> CustomConfigs \cup
                                   {c \in ProviderConfigs :
                                       c.kind = "Gemini" /\ c.rank = 1}] :
             LET r == NewRouter([k \in 1..n |->
                                    IF cfgs[k].kind = "Custom"
                                    THEN newCustomProvider(cfgs[k], now)
                                    ELSE newProvider(cfgs[k], now)])
             IN  /\ router = [called |-> TRUE, built |-> r.router,
                              err |-> r.err, args |-> cfgs]
                 /\ providers = r.providers
    /\ call = IdleCall
    /\ calls = [n |-> 0, clean |-> TRUE, reset |-> FALSE]

NamesNext == Tick \/ BeginQuery \/ CheckQuota \/ Send

SpecNames == NamesInit /\ [][NamesNext]_vars

\* ------------------------------------------------- one provider attempt
\* One call of a provider's QueryWithOptions, for every provider type, with
\* and without a tool executor, over two models or a forced one, against
\* every course the backend and the executor can take.  Here call records
\* the provider as it was, the options, the course taken and what the
\* call returned.
RelayConfigs ==
    { [kind |-> k, rank |-> 1, maxDailyRequests |-> 0,
       maxRequestsPerMinute |-> 0, maxTokensPerMinute |-> 0,
       models |-> <<"m1", "m2">>, toolExecutor |-> x] :
         k \in Kinds, x \in BOOLEAN }

\* the conversations handed to the attempt
RelayMessageLists ==
    MessageLists \cup
    {[tokens |-> 2,
      list |-> <<[Role |-> "system", Content |-> ""],
                 [Role |-> "assistant", Content |-> "hi"]>>]}

RelayInit ==
    /\ now = 0
    /\ \E c \in {x \in RelayConfigs :
                     x.toolExecutor => x.kind = "FunctionCalling"} :
          /\ router = [called |-> TRUE, built |-> TRUE, err |-> NoError,
                       args |-> <<c>>]
          /\ providers = <<newProvider(c, 0)>>
          /\ call = [op |-> "new", before |-> newProvider(c, 0),
                     messages |-> <<>>,
                     options |-> [ForceModel |-> ""], script |-> <<>>,
                     out |-> [err |-> NoError]]
    /\ calls = [n |-> 0, clean |-> TRUE, reset |-> FALSE]

RelayQuery ==
    /\ call.op = "new"
    /\ LET p == providers[1]
       IN  \E f \in {"", "mf"}, m \in RelayMessageLists :
             \E script \in [1..Len(ModelsToUse(p, [ForceModel |-> f])) ->
                                ScriptsOf(p)] :
                LET o == QueryWithOptions(p, m, [ForceModel |-> f], script,
                                          now)
                IN  /\ providers' = <<o.prov>>
                    /\ call' = [op |-> "query", before |-> p,
                                messages |-> m,
                                options |-> [ForceModel |-> f],
                                script |-> script, out |-> o]
    /\ UNCHANGED <<now, router, calls>>

RelayNext == RelayQuery

SpecRelay == RelayInit /\ [][RelayNext]_vars

\* ------------------------------------------------------ message cloning
\* The caller's messages and the copy the router hands to the providers.
\* A file's Data is a byte slice: the File value holds the address of the
\* bytes, the bytes themselves live in the heap.  Here calls is the caller's
\* memory (its message list and the heap) and call is the router call: the
\* copy it made, what a provider would have read when the call began, and
\* what each provider attempt read.
MaxAttempts == 2
Addrs == {1, 2}
Bytes == {0, 1}
Roles == {"user", "assistant"}
MessageContents == {"", "hi"}
Files == [Type : {"image"}, Data : Addrs]
FileLists == {<<>>} \cup {<<f>> : f \in Files}
                 \cup {<<f, g>> : f \in Files, g \in Files}

\* the copy: a new list of new messages, role and content by value, and a
\* new file list holding the caller's File values, addresses and all
CloneMessages(messages) ==
    [i \in DOMAIN messages |->
        [Role |-> messages[i].Role, Content |-> messages[i].Content,
         Files |-> [k \in DOMAIN messages[i].Files |-> messages[i].Files[k]]]]

\* the copy that also copied the bytes (given as the bytes themselves)
ReadThrough(messages, heap) ==
    [i \in DOMAIN messages |->
        [Role |-> messages[i].Role, Content |-> messages[i].Content,
         Files |-> [k \in DOMAIN messages[i].Files |->
                      [Type |-> messages[i].Files[k].Type,
                       Data |-> heap[messages[i].Files[k].Data]]]]]

CloneInit ==
    /\ now = 0
    /\ router = [called |-> FALSE, built |-> TRUE, err |-> NoError,
                 args |-> <<>>]
    /\ providers = <<>>
    /\ \E fl \in FileLists, h \in [Addrs -> Bytes] :
          calls = [messages |-> <<[Role |-> "user", Content |-> "hi",
                                   Files |-> fl]>>,
                   heap |-> h]
    /\ call = [pc |-> "idle", providerMessages |-> <<>>, given |-> <<>>,
               seen |-> <<>>]

\* Query / QueryWithOptions begins: the messages are copied
CloneQuery ==
    /\ call.pc = "idle"
    /\ call' = [pc |-> "attempt",
                providerMessages |-> CloneMessages(calls.messages),
                given |-> ReadThrough(calls.messages, calls.heap),
                seen |-> <<>>]
    /\ router' = [router EXCEPT !.called = TRUE]
    /\ UNCHANGED <<now, providers, calls>>

\* a provider attempt reads the messages it was handed
CloneAttempt ==
    /\ call.pc = "attempt"
    /\ call' = [call EXCEPT
                  !.seen = Append(@, ReadThrough(call.providerMessages,
                                                 calls.heap)),
                  !.pc = IF Len(call.seen) + 1 = MaxAttempts
                         THEN "done" ELSE "attempt"]
    /\ UNCHANGED <<now, router, providers, calls>>

\* the caller changes its own messages while the call runs
CallerSetRole ==
    /\ call.pc = "attempt"
    /\ \E r \in Roles \ {calls.messages[1].Role} :
          calls' = [calls EXCEPT !.messages[1].Role = r]
    /\ UNCHANGED <<now, router, providers, call>>

CallerSetContent ==
    /\ call.pc = "attempt"
    /\ \E c \in MessageContents \ {calls.messages[1].Content} :
          calls' = [calls EXCEPT !.messages[1].Content = c]
    /\ UNCHANGED <<now, router, providers, call>>

CallerSetFiles ==
    /\ call.pc = "attempt"
    /\ \E fl \in FileLists \ {calls.messages[1].Files} :
          calls' = [calls EXCEPT !.messages[1].Files = fl]
    /\ UNCHANGED <<now, router, providers, call>>

CallerWriteData ==
    /\ call.pc = "attempt"
    /\ \E k \in DOMAIN calls.messages[1].Files, b \in Bytes :
          /\ calls.heap[calls.messages[1].Files[k].Data] # b
          /\ calls' = [calls EXCEPT
                         !.heap[calls.messages[1].Files[k].Data] = b]
    /\ UNCHANGED <<now, router, providers, call>>

CloneNext ==
    \/ CloneQuery \/ CloneAttempt
    \/ CallerSetRole \/ CallerSetContent \/ CallerSetFiles \/ CallerWriteData

SpecClone == CloneInit /\ [][CloneNext]_vars

\* --------------------------------------------- Gemini message validation
\* ValidateGeminiMessage and ValidateGeminiMessages over every short list of
\* messages.  Here calls holds the list and call the last validation made
\* and what it returned.
MaxMessages == 3
ErrInvalidRole == "invalid role for Gemini"
GeminiRoleNames == {"user", "assistant", "system", "model", "tool", "User", ""}
GeminiMessages == [Role : GeminiRoleNames, Content : MessageContents]

\* a validation that knows Gemini's own two roles only
ValidateGeminiMessageOwnRoles(message) ==
    IF message.Role \in {"user", "model"} THEN NoError ELSE ErrInvalidRole

ValidateGeminiMessage(message) ==
    LET validRoles == [r \in GeminiRoleNames |->
                          r \in {"user", "assistant", "system"}]
    IN  IF ~validRoles[message.Role] THEN ErrInvalidRole ELSE NoError

\* the loop over the list from its i-th message on: the first message
\* that fails ends it, with that message's index (from 0) in the error
RECURSIVE ValidateGeminiMessages(_, _)
ValidateGeminiMessages(messages, i) ==
    IF i > Len(messages)
    THEN [err |-> NoError, index |-> -1]
    ELSE IF ValidateGeminiMessage(messages[i]) # NoError
         THEN [err |-> ValidateGeminiMessage(messages[i]), index |-> i - 1]
         ELSE ValidateGeminiMessages(messages, i + 1)

ValidateInit ==
    /\ now = 0
    /\ router = [called |-> FALSE, built |-> FALSE, err |-> NoError,
                 args |-> <<>>]
    /\ providers = <<>>
    /\ \E n \in 0..MaxMessages : \E ms \in [1..n -> GeminiMessages] :
          calls = [messages |-> ms]
    /\ call = [op |-> "none", k |-> 0, err |-> NoError, index |-> -1]

DoValidateGeminiMessage ==
    /\ \E k \in DOMAIN calls.messages :
          call' = [op |-> "ValidateGeminiMessage", k |-> k,
                   err |-> ValidateGeminiMessage(calls.messages[k]),
                   index |-> -1]
    /\ UNCHANGED <<now, router, providers, calls>>

DoValidateGeminiMessages ==
    /\ LET r == ValidateGeminiMessages(calls.messages, 1)
       IN  call' = [op |-> "ValidateGeminiMessages", k |-> 0,
                    err |-> r.err, index |-> r.index]
    /\ UNCHANGED <<now, router, providers, calls>>

ValidateNext == DoValidateGeminiMessage \/ DoValidateGeminiMessages

SpecValidate == ValidateInit /\ [][ValidateNext]_vars

\* ------------------------------------------- concurrent calls on a router
\* Goroutines call Router.QueryWithOptions at the same time on a router of
\* one provider.  The provider's fields are plain struct fields: nothing
\* orders one goroutine's reads and writes of them against another's, so
\* the window test, the window reset, and the load and the store of
\* requestsToday++ are steps of their own.  Here call holds one record per
\* goroutine and calls counts the window resets.
MaxGoroutines == 2

Goroutines == 1..MaxGoroutines

RaceInit ==
    /\ now = 0
    /\ \E c \in ProviderConfigs :
          /\ router = [called |-> TRUE, built |-> TRUE, err |-> NoError,
                       args |-> <<c>>]
          /\ providers = NewRouter(<<newProvider(c, 0)>>).providers
    /\ call = [g \in Goroutines |-> [pc |-> "has", tmp |-> 0, out |-> "none"]]
    /\ calls = [n |-> MaxGoroutines, clean |-> TRUE, reset |-> FALSE]

\* the return of HasRemainingRequests and what the router's loop does with
\* it: on to the provider's QueryWithOptions, or the skip
raceCompared(p, g) ==
    IF p.requestsToday < p.maxDailyRequests
       \/ (p.kind # "Gemini" /\ p.maxDailyRequests = 0)
    THEN [call EXCEPT ![g].pc = "query"]
    ELSE [call EXCEPT ![g].pc = "done", ![g].out = "skipped"]

\* time.Since(lastReset) > 24h, in HasRemainingRequests (not Gemini's) and
\* at the head of QueryWithOptions
RaceTest(g) ==
    /\ call[g].pc \in {"has", "query"}
    /\ LET p == providers[1]
           due == now - p.lastReset > DayLen
       IN  call' =
             IF call[g].pc = "has"
             THEN IF p.kind # "Gemini" /\ due
                  THEN [call EXCEPT ![g].pc = "hasReset"]
                  ELSE raceCompared(p, g)
             ELSE IF due THEN [call EXCEPT ![g].pc = "queryReset"]
                         ELSE [call EXCEPT ![g].pc = "request"]
    /\ UNCHANGED <<now, router, providers, calls>>

\* the body of the window test: the counter and the window start are
\* written
RaceReset(g) ==
    /\ call[g].pc \in {"hasReset", "queryReset"}
    /\ LET p == [providers[1] EXCEPT !.requestsToday = 0,
                                     !.lastReset = Truncate(now, DayLen)]
       IN  /\ providers' = <<p>>
           /\ call' = IF call[g].pc = "hasReset"
                      THEN raceCompared(p, g)
                      ELSE [call EXCEPT ![g].pc = "request"]
    /\ calls' = [calls EXCEPT !.reset = TRUE]
    /\ UNCHANGED <<now, router>>

\* the request goes out; on a good answer requestsToday++ begins with the
\* load of the counter
RaceRequest(g) ==
    /\ call[g].pc = "request"
    /\ \E good \in BOOLEAN :
          call' = IF good
                  THEN [call EXCEPT ![g].pc = "store",
                                    ![g].tmp = providers[1].requestsToday]
                  ELSE [call EXCEPT ![g].pc = "done", ![g].out = "failed"]
    /\ UNCHANGED <<now, router, providers, calls>>

\* requestsToday++ ends with the store of the incremented value
RaceStore(g) ==
    /\ call[g].pc = "store"
    /\ providers' = [providers EXCEPT ![1].requestsToday = call[g].tmp + 1]
    /\ call' = [call EXCEPT ![g].pc = "done", ![g].out = "served"]
    /\ UNCHANGED <<now, router, calls>>

RaceTick ==
    /\ now < MaxTime
    /\ now' = now + 1
    /\ UNCHANGED <<router, providers, call, calls>>

RaceNext ==
    \/ RaceTick
    \/ \E g \in Goroutines :
          RaceTest(g) \/ RaceReset(g) \/ RaceRequest(g) \/ RaceStore(g)

SpecRace == RaceInit /\ [][RaceNext]_vars

\* ------------------------------------------------ the windows of a provider
\* One OpenRouter or FunctionCalling provider, its three quota checks
\* applied in any order at any time, and requests that are answered.  Here
\* call records the last operation, the provider as it was before it, and
\* the answer of the check.
MaxWinTime == 5        \* the clock stops here
MaxCount == 2          \* answered requests

WinInit ==
    /\ now = 0
    /\ \E c \in {x \in ProviderConfigs : x.kind # "Gemini"} :
          /\ router = [called |-> TRUE, built |-> TRUE, err |-> NoError,
                       args |-> <<c>>]
          /\ providers = <<newProvider(c, 0)>>
          /\ call = [op |-> "new", before |-> newProvider(c, 0), ok |-> TRUE]
    /\ calls = [n |-> 0, clean |-> TRUE, reset |-> FALSE]

\* one model attempt that the backend answers, no tool calls
WinRequest ==
    /\ providers[1].requestsToday < MaxCount
    /\ \E m \in MessageLists :
         LET p == providers[1]
             s == [first |-> [status |-> "ok", toolCalls |-> 0,
                              content |-> "text"],
                   exec |-> {}, second |-> NoResponse]
             a == Attempt(p, p.models[1], s, m)
         IN  /\ providers' = <<a.prov>>
             /\ call' = [op |-> "request", before |-> p, ok |-> TRUE]
    /\ UNCHANGED <<now, router, calls>>

WinDaily ==
    /\ LET h == HasRemainingRequests(providers[1], now)
       IN  /\ providers' = <<h.prov>>
           /\ call' = [op |-> "daily", before |-> providers[1], ok |-> h.ok]
    /\ UNCHANGED <<now, router, calls>>

WinMinute ==
    /\ LET h == HasRemainingRequestsPerMinute(providers[1], now)
       IN  /\ providers' = <<h.prov>>
           /\ call' = [op |-> "minute", before |-> providers[1], ok |-> h.ok]
    /\ UNCHANGED <<now, router, calls>>

WinTokens ==
    /\ \E estimatedTokens \in 0..1 :
         LET h == HasRemainingTokensPerMinute(providers[1], estimatedTokens,
                                              now)
         IN  /\ providers' = <<h.prov>>
             /\ call' = [op |-> "tokens", before |-> providers[1],
                         ok |-> h.ok]
    /\ UNCHANGED <<now, router, calls>>

WinTick ==
    /\ now < MaxWinTime
    /\ now' = now + 1
    /\ call' = [call EXCEPT !.op = "tick"]
    /\ UNCHANGED <<router, providers, calls>>

WinNext ==
    WinRequest \/ WinDaily \/ WinMinute \/ WinTokens \/ WinTick

SpecWindows == WinInit /\ [][WinNext]_vars

\* ------------------------------------------------- the token budget
\* One OpenRouter or FunctionCalling provider with a token limit: requests
\* that the backend answers or fails, and token checks, at any time.  Here
\* call records the last operation and, for a check, the estimate and the
\* answer; calls.log lists the requests that succeeded, each with its time
\* and the tokens estimated for its messages.
TokenConfigs ==
    { [kind |-> k, rank |-> 1, maxDailyRequests |-> 0,
       maxRequestsPerMinute |-> 0, maxTokensPerMinute |-> 2,
       models |-> <<"m1">>, toolExecutor |-> FALSE] :
         k \in {"OpenRouter", "FunctionCalling"} }

TokInit ==
    /\ now = 0
    /\ \E c \in TokenConfigs :
          /\ router = [called |-> TRUE, built |-> TRUE, err |-> NoError,
                       args |-> <<c>>]
          /\ providers = <<newProvider(c, 0)>>
    /\ call = [op |-> "new", estimatedTokens |-> 0, ok |-> TRUE]
    /\ calls = [log |-> <<>>]

\* one model attempt, answered or failed
TokRequest ==
    /\ providers[1].requestsToday < MaxCount
    /\ \E m \in MessageLists, s \in ScriptsOf(providers[1]) :
         LET p == providers[1]
             a == Attempt(p, p.models[1], s, m)
         IN  /\ providers' = <<a.prov>>
             /\ call' = [op |-> IF a.err = NoError THEN "request"
                                                   ELSE "failed",
                         estimatedTokens |-> 0, ok |-> a.err = NoError]
             /\ calls' = IF a.err = NoError
                         THEN [log |-> Append(calls.log,
                                  [at |-> now,
                                   tokens |-> estimateTokensForMessages(m)])]
                         ELSE calls
    /\ UNCHANGED <<now, router>>

TokCheck ==
    /\ \E estimatedTokens \in 0..2 :
         LET h == HasRemainingTokensPerMinute(providers[1], estimatedTokens,
                                              now)
         IN  /\ providers' = <<h.prov>>
             /\ call' = [op |-> "tokens",
                         estimatedTokens |-> estimatedTokens, ok |-> h.ok]
    /\ UNCHANGED <<now, router, calls>>

TokTick ==
    /\ now < MaxWinTime
    /\ now' = now + 1
    /\ call' = [call EXCEPT !.op = "tick"]
    /\ UNCHANGED <<router, providers, calls>>

TokNext == TokRequest \/ TokCheck \/ TokTick

SpecTokens == TokInit /\ [][TokNext]_vars

\* ---------------------------------------------------------- RouterError
\* The accessors of a RouterError over every short failure list.  A text
\* is the sequence of its pieces: the strings put together by Sprintf and
\* Join, with "\n" a piece of its own.  Here calls holds the RouterError
\* and call the last accessor called and what it returned.
MaxErrors == 3
ProviderErrors ==
    [ProviderName : {"Gemini", "OpenRouter", "Provider 2"},
     Error : {ErrNoRemaining, ErrStatus, ErrGenerate}]

\* strings.Join
RECURSIVE Join(_, _)
Join(texts, sep) ==
    IF texts = <<>> THEN <<>>
    ELSE IF Len(texts) = 1 THEN texts[1]
    ELSE texts[1] \o <<sep>> \o Join(Tail(texts), sep)

\* RouterError.Error
RouterErrorError(r) ==
    IF Len(r.Errors) = 0
    THEN <<"no provider available or all providers failed">>
    ELSE LET errorMsgs == [k \in DOMAIN r.Errors |->
                              <<r.Errors[k].ProviderName, ": ",
                                r.Errors[k].Error>>]
         IN  <<"all providers failed:", "\n">> \o Join(errorMsgs, "\n")

\* an Unwrap that leaves out the providers skipped for quota
UnwrapSendFailures(r) ==
    LET sent == SelectSeq(r.Errors, LAMBDA e : e.Error # ErrNoRemaining)
    IN  [k \in DOMAIN sent |-> sent[k].Error]

\* RouterError.Unwrap
Unwrap(r) == [k \in DOMAIN r.Errors |-> r.Errors[k].Error]

\* RouterError.GetErrors
GetErrors(r) == r.Errors

ErrorsInit ==
    /\ now = 0
    /\ router = [called |-> FALSE, built |-> FALSE, err |-> NoError,
                 args |-> <<>>]
    /\ providers = <<>>
    /\ \E n \in 0..MaxErrors : \E es \in [1..n -> ProviderErrors] :
          calls = [Errors |-> es]
    /\ call = [op |-> "none", out |-> <<>>]

DoError ==
    /\ call' = [op |-> "Error", out |-> RouterErrorError(calls)]
    /\ UNCHANGED <<now, router, providers, calls>>

DoUnwrap ==
    /\ call' = [op |-> "Unwrap", out |-> Unwrap(calls)]
    /\ UNCHANGED <<now, router, providers, calls>>

DoGetErrors ==
    /\ call' = [op |-> "GetErrors", out |-> GetErrors(calls)]
    /\ UNCHANGED <<now, router, providers, calls>>

ErrorsNext == DoError \/ DoUnwrap \/ DoGetErrors

SpecErrors == ErrorsInit /\ [][ErrorsNext]_vars

\* ----------------------------------------------- the two ways to query
\* Router.Query and Router.QueryWithOptions run to their end from the same
\* router and provider state against the same course of the backends.
\* Here call holds the providers as they were before the call and, for
\* each of the two, the call record at its end and the providers it left;
\* the router goes on from what QueryWithOptions left.

MaxPathToolCalls == 1  \* tool calls in one backend response, here

\* the courses the providers of a list can take, one per provider in turn
RECURSIVE Courses(_, _, _)
Courses(ps, options, k) ==
    IF k = 0 THEN {<<>>}
    ELSE {Append(x, a) :
             x \in Courses(ps, options, k - 1),
             a \in [1..Len(ModelsToUse(ps[k], options)) ->
                      {s \in ScriptsOf(ps[k]) :
                          /\ s.first.toolCalls <= MaxPathToolCalls
                          /\ s.second.toolCalls <= MaxPathToolCalls}]}

\* the range loop of Router.Query / Router.QueryWithOptions from the call
\* record c on, to the return
RECURSIVE RunCall(_, _, _, _)
RunCall(c, ps, course, t) ==
    IF c.pc = "done" THEN [call |-> c, providers |-> ps]
    ELSE LET p == ps[c.i]
             name == providerName(p, c.i)
         IN  IF c.pc = "check"
             THEN LET h == HasRemainingRequests(p, t)
                  IN  RunCall(checked(c, h.ok, name, Len(ps)),
                              [ps EXCEPT ![c.i] = h.prov], course, t)
             ELSE LET o == QueryWithOptions(p, c.messages, c.options,
                                            course[c.i], t)
                  IN  RunCall(returned(c, o, name, Len(ps)),
                              [ps EXCEPT ![c.i] = o.prov], course, t)

\* Router.Query
RouterQuery(ps, messages, forceModel, course, t) ==
    RunCall(begin(TRUE, messages, [ForceModel |-> forceModel], Len(ps)),
            ps, course, t)

\* Router.QueryWithOptions
RouterQueryWithOptions(ps, messages, options, course, t) ==
    RunCall(begin(FALSE, messages, options, Len(ps)), ps, course, t)

PathsIdle == [op |-> "idle", before |-> <<>>, legacy |-> <<>>,
              options |-> <<>>]

PathsInit ==
    /\ now = 0
    /\ \E cfgs \in ProviderLists :
          LET r == NewRouter([k \in 1..Len(cfgs) |->
                                 newProvider(cfgs[k], now)])
          IN  /\ r.router
              /\ router = [called |-> TRUE, built |-> TRUE, err |-> r.err,
                           args |-> cfgs]
              /\ providers = r.providers
    /\ calls = [n |-> 0, clean |-> TRUE, reset |-> FALSE]
    /\ call = PathsIdle

PathsCall ==
    /\ call.op = "idle"
    /\ calls.n < MaxCalls
    /\ \E m \in MessageLists, f \in {"", "mf"} :
         \E course \in Courses(providers, [ForceModel |-> f],
                                Len(providers)) :
            LET l == RouterQuery(providers, m, f, course, now)
                o == RouterQueryWithOptions(providers, m, [ForceModel |-> f],
                                            course, now)
            IN  /\ call' = [op |-> "called", before |-> providers,
                            legacy |-> l, options |-> o]
                /\ providers' = o.providers
    /\ calls' = [calls EXCEPT !.n = @ + 1]
    /\ UNCHANGED <<now, router>>

\* the caller has its answer; the router is idle again
PathsReturn ==
    /\ call.op = "called"
    /\ call' = PathsIdle
    /\ UNCHANGED <<now, router, providers, calls>>

PathsTick ==
    /\ call.op = "idle"
    /\ now < MaxTime
    /\ now' = now + 1
    /\ UNCHANGED <<router, providers, call, calls>>

PathsNext == PathsCall \/ PathsReturn \/ PathsTick

SpecPaths == PathsInit /\ [][PathsNext]_vars

\* -------------------------------------------- the failure list of a call
\* Goroutines call Router.QueryWithOptions or Router.Query at the same time
\* on one router; a quota check and a provider's QueryWithOptions are each
\* taken as one step.  Here call holds one call record per goroutine.

\* what the backends answer here: at most MaxPathToolCalls tool calls in a
\* response
SharedScripts(p) ==
    {s \in ScriptsOf(p) : /\ s.first.toolCalls <= MaxPathToolCalls
                          /\ s.second.toolCalls <= MaxPathToolCalls}

\* a router whose failure list is one list for all its calls
callSharesErrors(cs, g, c) ==
    [h \in DOMAIN cs |-> IF h = g THEN c
                         ELSE [cs[h] EXCEPT !.Errors = c.Errors]]

\* routerError is a variable of the call: what a call does to its record
\* and its failure list touches no other call
callLocal(cs, g, c) == [cs EXCEPT ![g] = c]

SharedInit ==
    /\ now = 0
    /\ \E cfgs \in ProviderLists :
          LET r == NewRouter([k \in 1..Len(cfgs) |->
                                 newProvider(cfgs[k], now)])
          IN  /\ r.router
              /\ router = [called |-> TRUE, built |-> TRUE, err |-> r.err,
                           args |-> cfgs]
              /\ providers = r.providers
    /\ \E legacy \in [Goroutines -> BOOLEAN], m \in MessageLists :
          call = [g \in Goroutines |->
                     begin(legacy[g], m, [ForceModel |-> ""], Len(providers))]
    /\ calls = [n |-> MaxGoroutines, clean |-> TRUE, reset |-> FALSE]

SharedCheck(g) ==
    /\ call[g].pc = "check"
    /\ LET c == call[g]
           p == providers[c.i]
           h == HasRemainingRequests(p, now)
       IN  /\ providers' = [providers EXCEPT ![c.i] = h.prov]
           /\ call' = callLocal(call, g,
                          checked(c, h.ok, providerName(p, c.i),
                                  Len(providers)))
    /\ UNCHANGED <<now, router, calls>>

SharedSend(g) ==
    /\ call[g].pc = "send"
    /\ LET c == call[g]
           p == providers[c.i]
       IN  \E script \in [1..Len(p.models) -> SharedScripts(p)] :
              LET o == QueryWithOptions(p, c.messages, c.options, script, now)
              IN  /\ providers' = [providers EXCEPT ![c.i] = o.prov]
                  /\ call' = callLocal(call, g,
                                 returned(c, o, providerName(p, c.i),
                                          Len(providers)))
    /\ UNCHANGED <<now, router, calls>>

SharedNext == \E g \in Goroutines : SharedCheck(g) \/ SharedSend(g)

SpecShared == SharedInit /\ [][SharedNext]_vars

\* ------------------------------------------------ the end of every call
\* A router serving one call after the other, with every quota check, every
\* backend request and every tool execution returning.  Here calls also
\* keeps, for the call in progress, what every provider attempt cost:
\* the backend requests it made and the models it had to try.

TermInit ==
    /\ now = 0
    /\ \E cfgs \in ProviderLists :
          LET r == NewRouter([k \in 1..Len(cfgs) |->
                                 newProvider(cfgs[k], now)])
          IN  /\ r.router
              /\ router = [called |-> TRUE, built |-> TRUE, err |-> r.err,
                           args |-> cfgs]
              /\ providers = r.providers
    /\ call = IdleCall
    /\ calls = [n |-> 0, attempts |-> <<>>]

TermBegin ==
    /\ call.pc \in {"idle", "done"}
    /\ calls.n < MaxCalls
    /\ \E legacy \in BOOLEAN, m \in MessageLists, f \in ForceModels :
         call' = begin(legacy, m, [ForceModel |-> f], Len(providers))
    /\ calls' = [n |-> calls.n + 1, attempts |-> <<>>]
    /\ UNCHANGED <<now, router, providers>>

TermCheck ==
    /\ call.pc = "check"
    /\ LET p == providers[call.i]
           h == HasRemainingRequests(p, now)
       IN  /\ providers' = [providers EXCEPT ![call.i] = h.prov]
           /\ call' = checked(call, h.ok, providerName(p, call.i),
                              Len(providers))
    /\ UNCHANGED <<now, router, calls>>

TermSend ==
    /\ call.pc = "send"
    /\ LET p == providers[call.i]
       IN  \E script \in [1..Len(p.models) -> ScriptsOf(p)] :
              LET o == QueryWithOptions(p, call.messages, call.options,
                                        script, now)
              IN  /\ providers' = [providers EXCEPT ![call.i] = o.prov]
                  /\ call' = returned(call, o, providerName(p, call.i),
                                      Len(providers))
                  /\ calls' = [calls EXCEPT !.attempts =
                                 Append(@, [idx |-> call.i, reqs |-> o.reqs,
                                            models |-> Len(ModelsToUse(
                                                p, call.options)),
                                            configured |-> Len(p.models)])]
    /\ UNCHANGED <<now, router>>

TermNext == TermBegin \/ TermCheck \/ TermSend

\* the goroutine of a call keeps running, and what it waits for returns
SpecTerm ==
    /\ TermInit /\ [][TermNext]_vars
    /\ WF_vars(TermCheck) /\ WF_vars(TermSend)

\* ------------------------------------------------------------- shorthands
N == Len(providers)
Done == call.pc = "done"
Trace == call.trace
Checks == {k \in DOMAIN Trace : Trace[k].op = "check"}
Sends == {k \in DOMAIN Trace : Trace[k].op = "send"}

\* the configuration a provider object was built from
ConfigOf(p) ==
    [kind |-> p.kind, rank |-> p.rank,
     maxDailyRequests |-> p.maxDailyRequests,
     maxRequestsPerMinute |-> p.maxRequestsPerMinute,
     maxTokensPerMinute |-> p.maxTokensPerMinute,
     models |-> p.models, toolExecutor |-> p.toolExecutor]

Counters(p) == <<p.requestsToday, p.requestsThisMinute, p.tokensThisMinute>>

TypeOK ==
    /\ now \in 0..MaxTime
    /\ call.pc \in {"idle", "check", "send", "done"}
    /\ call.ctx \in {"live", "cancelled"}
    /\ Len(providers) <= MaxProviders
    /\ calls.n \in 0..MaxCalls

\* ------------------------------------------------------------------ claims

\* C1 - first success wins: once the send to provider i has returned
\* success nothing more happens in the call: the call has ended without an
\* error, what the caller holds is what that provider returned, and no
\* provider after i was checked or sent the request.
C1_FirstSuccessWins ==
    \A k \in Sends :
        Trace[k].ok =>
            /\ k = Len(Trace)
            /\ Done
            /\ call.ret.err = NoError
            /\ call.ret.result = delivered(call.legacy, Trace[k].result)
            /\ \A j \in DOMAIN Trace : Trace[j].idx <= Trace[k].idx

\* the first of several providers answered while a later one had quota
C1_Witness ==
    /\ Done /\ N >= 2
    /\ \E k \in Sends : Trace[k].ok /\ Trace[k].idx = 1
    /\ \E j \in 2..N : HasRemainingRequests(providers[j], now).ok

\* every provider of the router was skipped for quota or failed
Exhausted ==
    /\ Done
    /\ \A i \in 1..N : \E k \in DOMAIN Trace :
                          Trace[k].idx = i /\ ~Trace[k].ok

\* the cause the call saw for provider i: the skip, or the provider's error
CauseOf(i) ==
    IF \E k \in Checks : Trace[k].idx = i /\ ~Trace[k].ok
    THEN ErrNoRemaining
    ELSE LET k == CHOOSE k \in Sends : Trace[k].idx = i IN Trace[k].err

\* C2 - exhaustive failure: when every one of the N providers was skipped
\* or failed, the call returns a RouterError with exactly N records, the
\* k-th being provider k's name and cause.
C2_ExhaustiveFailure ==
    Exhausted =>
        /\ call.ret.err = ErrRouter
        /\ Len(call.ret.Errors) = N
        /\ \A i \in 1..N :
              call.ret.Errors[i] =
                  [ProviderName |-> providerName(providers[i], i),
                   Error |-> CauseOf(i)]

\* two providers, the first skipped, the second sent and failed
C2_Witness ==
    /\ Exhausted /\ N = 2
    /\ \E k \in Checks : Trace[k].idx = 1 /\ ~Trace[k].ok
    /\ \E k \in Sends : Trace[k].idx = 2 /\ ~Trace[k].ok

\* C3 - a call ends without error exactly when some provider passed its
\* quota check and its send succeeded, and then it carries a result and no
\* failure record; otherwise it ends with a RouterError holding at least
\* one record and no result, never with the plain error.
C3_ResultOrRouterError ==
    Done /\ router.called =>
        /\ call.ret.err = NoError <=>
              \E k \in Sends :
                  /\ Trace[k].ok
                  /\ \E j \in Checks : Trace[j].idx = Trace[k].idx /\ Trace[j].ok
        /\ call.ret.err = NoError =>
              ~call.ret.result.isNil /\ call.ret.Errors = <<>>
        /\ call.ret.err # NoError =>
              /\ call.ret.err = ErrRouter
              /\ Len(call.ret.Errors) > 0
              /\ call.ret.result.isNil

\* a provider succeeded after an earlier one was skipped or failed
C3_Witness ==
    /\ Done /\ call.ret.err = NoError
    /\ Len(call.Errors) > 0

\* C4 - daily quota skip: a provider whose quota check said no is not sent
\* the request in this call, and the failure list holds, at its position,
\* its name with the cause "no remaining requests".
C4_QuotaSkip ==
    \A k \in Checks :
        ~Trace[k].ok =>
            LET i == Trace[k].idx
            IN  /\ \A j \in Sends : Trace[j].idx # i
                /\ Len(call.Errors) >= i
                /\ call.Errors[i] =
                       [ProviderName |-> providerName(providers[i], i),
                        Error |-> ErrNoRemaining]

\* a provider was skipped after it had used up its daily limit, and the
\* next one was sent the request
C4_Witness ==
    \E k \in Checks :
        /\ ~Trace[k].ok
        /\ providers[Trace[k].idx].maxDailyRequests > 0
        /\ \E j \in Sends : Trace[j].idx > Trace[k].idx

\* the only provider is still in the daily window it was built in
InFirstWindow ==
    /\ ~calls.reset
    /\ now - providers[1].lastReset <= DayLen

\* C5 - quota exhaustion over a sequence of calls: with a single provider
\* of daily limit M > 0, inside one daily window and with a backend that
\* has always answered successfully, each of the first M calls succeeds and
\* call M+1 is skipped without a send, returning a RouterError whose only
\* record has the cause "no remaining requests".
C5_QuotaExhaustion ==
    (/\ N = 1 /\ Done
     /\ providers[1].maxDailyRequests > 0
     /\ calls.clean /\ InFirstWindow) =>
        LET M == providers[1].maxDailyRequests
        IN  /\ calls.n <= M => call.ret.err = NoError
            /\ calls.n = M + 1 =>
                  /\ call.ret.err = ErrRouter
                  /\ Sends = {}
                  /\ call.ret.Errors =
                         <<[ProviderName |-> providerName(providers[1], 1),
                            Error |-> ErrNoRemaining]>>

\* C6 - construction: NewRouter with no provider returns an error and no
\* router; with one or more providers it returns a router holding them and
\* no error.
C6_Construction ==
    router.called =>
        IF Len(router.args) = 0
        THEN ~router.built /\ router.err # NoError /\ providers = <<>>
        ELSE /\ router.built /\ router.err = NoError
             /\ Len(providers) = Len(router.args)

\* NewRouter was called without providers
C6_Witness ==
    router.called /\ Len(router.args) = 0 /\ ~router.built

\* where a provider stood in the list given to NewRouter
Registered(p) == CHOOSE x \in DOMAIN router.args : router.args[x] = ConfigOf(p)

\* C7 - rank ordering: a call attempts the providers in descending rank
\* order, providers of equal rank in registration order.
C7_RankOrder ==
    \A j, k \in Checks :
        j < k =>
            LET a == providers[Trace[j].idx]
                b == providers[Trace[k].idx]
            IN  \/ GetRank(a) > GetRank(b)
                \/ GetRank(a) = GetRank(b) /\ Registered(a) < Registered(b)

C9_FailedCallsKeepQuota ==
    [][(/\ call.pc = "send"
        /\ Len(call'.trace) = Len(call.trace) + 1
        /\ ~call'.trace[Len(call'.trace)].ok) =>
           Counters(providers'[call.i]) =
               Counters(resetDaily(providers[call.i], now))]_vars

\* C10 - zero means unlimited: a provider of any type with
\* maxDailyRequests = 0 reports remaining requests whatever it has
\* recorded, and no quota check of the router on it says no.
C10_ZeroMeansUnlimited ==
    /\ \A i \in 1..N :
          providers[i].maxDailyRequests = 0 =>
              HasRemainingRequests(providers[i], now).ok
    /\ \A k \in Checks :
          providers[Trace[k].idx].maxDailyRequests = 0 => Trace[k].ok

\* C11 - daily reset restores service: for a provider of any type with a
\* daily limit, a quota check of the router made more than a day after the
\* provider's day-window start is evaluated against a counter reset to
\* zero: the counter is zero after the check, the check says yes and the
\* provider is sent the request.
C11_DailyResetRestores ==
    [][(/\ call.pc = "check"
        /\ call'.trace # call.trace
        /\ providers[call.i].maxDailyRequests > 0
        /\ now - providers[call.i].lastReset > DayLen) =>
           /\ providers'[call.i].requestsToday = 0
           /\ call'.pc = "send"]_vars

\* the goroutines whose request was answered and counted
Served == {g \in Goroutines : call[g].out = "served"}

\* C12 - concurrent calls are safe: when the goroutines racing on one
\* provider have all ended inside one daily window, requestsToday has
\* grown by exactly the number of requests served, and at no time is one
\* goroutine inside the window reset while another is between the load and
\* the store of its increment.
C12_NoLostUpdate ==
    /\ ((\A g \in Goroutines : call[g].pc = "done") /\ ~calls.reset) =>
           providers[1].requestsToday = Cardinality(Served)
    /\ \A g, h \in Goroutines :
          ~(call[g].pc \in {"hasReset", "queryReset"} /\ call[h].pc = "store")

\* C13 - cancellation stops the fallback loop: once the context of a call
\* is cancelled, the call moves on to no further provider, and the return
\* of the attempt in flight ends the call.
C13_CancellationStops ==
    [][(/\ call.ctx = "cancelled"
        /\ call.pc \in {"check", "send"}
        /\ call' # call) =>
           /\ call'.i = call.i
           /\ call.pc = "send" => call'.pc = "done"]_vars

\* C14 - per-minute quota skip: a provider whose per-minute request check
\* says no at its turn is not sent the request: the loop body records it
\* with the cause "no remaining requests" and does not reach the send.
C14_PerMinuteSkip ==
    [][(/\ call.pc = "check"
        /\ call'.trace # call.trace
        /\ providers[call.i].kind # "Gemini"
        /\ ~HasRemainingRequestsPerMinute(providers[call.i], now).ok) =>
           /\ call'.pc # "send"
           /\ call'.Errors =
                  Append(call.Errors,
                         [ProviderName |-> providerName(providers[call.i],
                                                        call.i),
                          Error |-> ErrNoRemaining])]_vars

\* the fields of the daily window, and of the minute window
DayWindow(p) == <<p.requestsToday, p.lastReset>>
MinuteWindow(p) ==
    <<p.requestsThisMinute, p.tokensThisMinute, p.lastMinuteReset>>

C16_WindowIndependence ==
    /\ call.op = "daily" =>
           MinuteWindow(providers[1]) = MinuteWindow(call.before)
    /\ call.op \in {"minute", "tokens"} =>
           DayWindow(providers[1]) = DayWindow(call.before)

\* a per-minute check reset its window, more than a day after the
\* day-window start, while requestsToday was in use
C16_Witness ==
    /\ call.op = "minute"
    /\ call.before.lastMinuteReset # providers[1].lastMinuteReset
    /\ now - call.before.lastReset > DayLen
    /\ providers[1].requestsToday > 0

\* C17 - shared minute window: a per-minute request check or token check
\* made more than a minute after the minute-window start sets both
\* requestsThisMinute and tokensThisMinute to 0 and moves the one window
\* start; made earlier it changes neither counter.
C17_SharedMinuteWindow ==
    call.op \in {"minute", "tokens"} =>
        LET b == call.before
            a == providers[1]
        IN  IF now - b.lastMinuteReset > MinuteLen
            THEN MinuteWindow(a) = <<0, 0, Truncate(now, MinuteLen)>>
            ELSE MinuteWindow(a) = MinuteWindow(b)

\* a token check reset the window while both counters were in use
C17_Witness ==
    /\ call.op = "tokens"
    /\ call.before.requestsThisMinute > 0
    /\ call.before.tokensThisMinute > 0
    /\ MinuteWindow(providers[1]) = <<0, 0, Truncate(now, MinuteLen)>>
    /\ call.before.lastMinuteReset # providers[1].lastMinuteReset

\* C18 - Router.HasRemainingRequests answers yes exactly when the daily
\* check of at least one registered provider answers yes, and its answer
\* is the same whatever the per-minute request and token counters of the
\* providers hold.
C18_RouterHasRemaining ==
    router.built =>
        LET h == RouterHasRemainingRequests(providers, 1, now)
        IN  /\ h.ok <=> \E i \in 1..N :
                            HasRemainingRequests(providers[i], now).ok
            /\ \A i \in 1..N, r, k \in 0..MaxCount :
                  RouterHasRemainingRequests(
                      [providers EXCEPT ![i].requestsThisMinute = r,
                                        ![i].tokensThisMinute = k],
                      1, now).ok = h.ok

\* the first provider has used up its day, the second has not but has
\* used up its minute
C18_Witness ==
    /\ router.built /\ N = 2
    /\ ~HasRemainingRequests(providers[1], now).ok
    /\ HasRemainingRequests(providers[2], now).ok
    /\ providers[2].maxRequestsPerMinute > 0
    /\ ~HasRemainingRequestsPerMinute(providers[2], now).ok
    /\ RouterHasRemainingRequests(providers, 1, now).ok

\* C19 - no retry: within one call no provider is sent the request twice,
\* a provider that was skipped or has failed is not sent the request
\* afterwards, and what follows a skip or a failure is the quota check of
\* the next provider.
C19_NoRetry ==
    /\ \A j, k \in Sends : j # k => Trace[j].idx # Trace[k].idx
    /\ \A j \in DOMAIN Trace :
          ~Trace[j].ok =>
              /\ \A k \in Sends : k > j => Trace[k].idx > Trace[j].idx
              /\ j < Len(Trace) =>
                     /\ Trace[j + 1].op = "check"
                     /\ Trace[j + 1].idx = Trace[j].idx + 1

\* the first provider failed and the second one was sent the request
C19_Witness ==
    /\ Done /\ N = 2
    /\ \E j, k \in Sends :
          /\ Trace[j].idx = 1 /\ ~Trace[j].ok
          /\ Trace[k].idx = 2

\* C20 - uniform failure handling: whatever error a provider's send
\* returned, the failure list holds at the provider's position its name
\* with that very error, and the loop went on: to the quota check of the
\* next provider, or past the last provider to the RouterError carrying
\* the list.
C20_UniformFailure ==
    \A k \in Sends :
        ~Trace[k].ok =>
            LET i == Trace[k].idx
            IN  /\ Len(call.Errors) >= i
                /\ call.Errors[i] =
                       [ProviderName |-> providerName(providers[i], i),
                        Error |-> Trace[k].err]
                /\ IF i < N
                   THEN IF k < Len(Trace)
                        THEN Trace[k + 1].op = "check" /\ Trace[k + 1].idx = i + 1
                        ELSE call.pc = "check" /\ call.i = i + 1
                   ELSE /\ Done
                        /\ call.ret.err = ErrRouter
                        /\ call.ret.Errors = call.Errors

\* two providers failed with different errors, the first because its
\* request could not be made
C20_Witness ==
    /\ Done /\ N = 2
    /\ \E j, k \in Sends :
          /\ Trace[j].idx = 1 /\ Trace[j].err = ErrCreateRequest
          /\ Trace[k].idx = 2 /\ Trace[k].err \notin {NoError, ErrCreateRequest}
    /\ Len(call.ret.Errors) = 2

C22_ReleasedOnce ==
    /\ calls.closeCalls = 0 => \A i \in 1..N : calls.closed[i] = 0
    /\ calls.closeCalls > 0 => \A i \in 1..N : calls.closed[i] = 1

\* C23 - placeholder names: a provider whose Name() is empty stands in the
\* failure list under "Provider k", k its position, and no other record
\* of the list carries that name; the providers are checked in list order
\* all the same.
C23_PlaceholderNames ==
    /\ \A i \in 1..Len(call.Errors) :
          Name(providers[i]) = "" =>
              /\ call.Errors[i].ProviderName = Placeholder[i]
              /\ \A j \in 1..Len(call.Errors) :
                    j # i =>
                        call.Errors[j].ProviderName # call.Errors[i].ProviderName
    /\ \A k \in Checks :
          Trace[k].idx = Cardinality({j \in Checks : j <= k})

\* the models of the attempt on record, the requests it made for its k-th
\* model, and whether the course on record lets its k-th model answer
RelayModels == ModelsToUse(call.before, call.options)
SentFor(k) == SelectSeq(call.out.sent, LAMBDA r : r.model = RelayModels[k])
Answers(k) ==
    LET s == call.script[k]
    IN  /\ s.first.status = "ok"
        /\ (call.before.toolExecutor /\ s.exec # {}) => s.second.status = "ok"
Tried(k) == \A j \in 1..(k - 1) : ~Answers(j)

\* C24 - tool relay, partial success: when the first response for a model
\* carries tool calls and the executor succeeds on at least one of them,
\* the failed ones are dropped: exactly two requests are made for that
\* model, the second carrying exactly the successful results in tool-call
\* order, and the attempt on that model succeeds or fails as the second
\* request does.
C24_RelayPartial ==
    (call.op = "query" /\ call.before.toolExecutor) =>
        \A k \in DOMAIN RelayModels :
            LET s == call.script[k]
            IN  (Tried(k) /\ s.first.status = "ok" /\ s.exec # {}) =>
                    /\ SentFor(k) =
                           <<Request(RelayModels[k], <<>>),
                             Request(RelayModels[k], AscSeq(s.exec))>>
                    /\ s.second.status = "ok" =>
                           /\ call.out.err = NoError
                           /\ call.out.result =
                                  [isNil |-> FALSE,
                                   Content |-> s.second.content,
                                   Model |-> RelayModels[k],
                                   ToolCalls |-> s.second.toolCalls]

\* of two tool calls the first failed and the second succeeded
C24_Witness ==
    /\ call.op = "query" /\ call.before.toolExecutor
    /\ call.script[1].first.toolCalls = 2
    /\ call.script[1].exec = {2}
    /\ call.out.sent = <<Request("m1", <<>>), Request("m1", <<2>>)>>
    /\ call.out.err = NoError

C26_SingleRoundTrip ==
    call.op = "query" =>
        /\ call.out.phases <= 1
        /\ Len(SelectSeq(call.out.sent, LAMBDA r : r.toolResults # <<>>)) <= 1

\* C27 - model fallback inside a provider: the attempt makes its requests
\* model by model in configuration order, up to and including the first
\* model that answers; it returns that model's result, and it fails only
\* when every model failed, and then it does; with a forced model that
\* model alone is tried.
C27_ModelFallback ==
    call.op = "query" =>
        LET ms == RelayModels
            first == IF \E k \in DOMAIN ms : Answers(k)
                     THEN CHOOSE k \in DOMAIN ms : Answers(k) /\ Tried(k)
                     ELSE Len(ms)
            order == [k \in 1..Len(call.out.sent) |->
                         CHOOSE j \in DOMAIN ms : ms[j] = call.out.sent[k].model]
        IN  /\ call.options.ForceModel # "" => ms = <<call.options.ForceModel>>
            /\ call.options.ForceModel = "" => ms = call.before.models
            /\ \A k \in DOMAIN ms : SentFor(k) # <<>> <=> k <= first
            /\ \A a, b \in DOMAIN order : a <= b => order[a] <= order[b]
            /\ call.out.err = NoError <=> \E k \in DOMAIN ms : Answers(k)
            /\ call.out.err = NoError => call.out.result.Model = ms[first]

\* the first model failed and the second answered
C27_Witness ==
    /\ call.op = "query" /\ call.options.ForceModel = ""
    /\ ~Answers(1) /\ Answers(2)
    /\ call.out.err = NoError /\ call.out.result.Model = "m2"

\* C28 - empty responses trigger fallback: a provider response of empty
\* content counts as a failure of that provider, so no call to the router
\* ends in success with a result of empty content.
C28_EmptyIsError ==
    (Done /\ router.called /\ call.ret.err = NoError) =>
        call.ret.result.Content # ""

\* C29 - message cloning: every provider attempt of a call reads the
\* messages as they were when the call began, whatever the caller does to
\* its own messages (role, content, file list, a file's data bytes) during
\* the call.
C29_ClonedMessages ==
    \A k \in DOMAIN call.seen : call.seen[k] = call.given

\* what the copy does give: the role, the content and the length of the
\* file list that an attempt reads are those of the time of the call
ShallowCopyHolds ==
    call.pc # "idle" =>
        \A i \in DOMAIN call.seen, m \in DOMAIN call.given :
            /\ call.seen[i][m].Role = call.given[m].Role
            /\ call.seen[i][m].Content = call.given[m].Content
            /\ Len(call.seen[i][m].Files) = Len(call.given[m].Files)

\* C30 - Gemini message validation: ValidateGeminiMessage returns no error
\* exactly when the role of the message is user, assistant or system,
\* whatever its content; ValidateGeminiMessages returns an error exactly
\* when some message of the list has another role.
C30_GeminiValidation ==
    /\ call.op = "ValidateGeminiMessage" =>
          (call.err = NoError <=>
              calls.messages[call.k].Role \in {"user", "assistant", "system"})
    /\ call.op = "ValidateGeminiMessages" =>
          (call.err # NoError <=>
              \E k \in DOMAIN calls.messages :
                  calls.messages[k].Role \notin {"user", "assistant", "system"})

\* a list whose only offending message is its last was refused
C30_Witness ==
    /\ call.op = "ValidateGeminiMessages"
    /\ Len(calls.messages) = 3
    /\ calls.messages[1].Role = "system"
    /\ calls.messages[2].Role = "assistant"
    /\ calls.messages[3] = [Role |-> "model", Content |-> ""]
    /\ call.err = ErrInvalidRole /\ call.index = 2

\* C31 - per-minute reset during routing: whenever a step of the router
\* records usage in a provider's per-minute counters more than a minute
\* after the start of that provider's minute window, the window is
\* restarted in that step, so the counters hold the usage of the current
\* window only.
C31_MinuteResetInRouting ==
    [][\A i \in DOMAIN providers \cap DOMAIN providers' :
          (/\ now - providers[i].lastMinuteReset > MinuteLen
           /\ \/ providers'[i].requestsThisMinute # providers[i].requestsThisMinute
              \/ providers'[i].tokensThisMinute # providers[i].tokensThisMinute)
          => /\ providers'[i].lastMinuteReset = Truncate(now, MinuteLen)
             /\ providers'[i].requestsThisMinute <= 2 * Len(providers[i].models)]_vars

\* the tokens of the requests that succeeded since the minute window of
\* the provider began
RECURSIVE TokensSince(_, _)
TokensSince(log, start) ==
    IF log = <<>> THEN 0
    ELSE (IF log[1].at >= start THEN log[1].tokens ELSE 0)
            + TokensSince(Tail(log), start)

\* C32 - token budget accounting: the token check for an estimate e says
\* yes exactly when the limit is 0 or the tokens of the requests that
\* succeeded in the current minute window plus e stay within the limit;
\* tokensThisMinute is that sum.
C32_TokenBudget ==
    call.op = "tokens" =>
        LET p == providers[1]
            used == TokensSince(calls.log, p.lastMinuteReset)
        IN  /\ p.tokensThisMinute = used
            /\ call.ok <=> \/ p.maxTokensPerMinute = 0
                           \/ used + call.estimatedTokens <= p.maxTokensPerMinute

\* the request bodies the attempt on record sent for its k-th model
BodiesFor(k) ==
    SelectSeq(call.out.bodies, LAMBDA r : r.model = RelayModels[k])

\* C33 - tool relay follow-up request: when at least one tool result was
\* produced for a model, the follow-up request goes to the same provider
\* and names the same model as the first, its messages are the messages of
\* the first request followed by exactly one new message, which holds the
\* tool results, and the attempt on that model ends as the second request
\* does: its response is the result, its failure is the failure of that
\* model.
C33_FollowUpRequest ==
    (call.op = "query" /\ call.before.toolExecutor) =>
        \A k \in DOMAIN RelayModels :
            LET s == call.script[k]
                b == BodiesFor(k)
            IN  (Tried(k) /\ s.first.status = "ok" /\ s.exec # {}) =>
                    /\ Len(b) = 2
                    /\ b[1] = RequestBody(RelayModels[k],
                                          ApiMessages(call.messages))
                    /\ b[2].model = b[1].model
                    /\ Len(b[2].messages) = Len(b[1].messages) + 1
                    /\ SubSeq(b[2].messages, 1, Len(b[1].messages))
                          = b[1].messages
                    /\ b[2].messages[Len(b[2].messages)]
                          = ToolMessage(AscSeq(s.exec))
                    /\ s.second.status = "ok" =>
                          /\ call.out.err = NoError
                          /\ call.out.result.Content = s.second.content
                          /\ call.out.result.ToolCalls = s.second.toolCalls
                          /\ call.out.result.Model = RelayModels[k]
                    /\ (s.second.status # "ok" /\ call.out.err = NoError) =>
                          call.out.result.Model # RelayModels[k]
                    /\ (k = 1 /\ s.second.status = "ok") =>
                          call.out.prov.requestsToday
                             = call.before.requestsToday + 2

\* a conversation of two messages went out again with the result of the
\* one tool call, and the second answer, with a tool call of its own, came
\* back as the result
C33_Witness ==
    /\ call.op = "query" /\ call.before.toolExecutor
    /\ Len(call.messages.list) = 2
    /\ call.script[1].first.toolCalls = 1 /\ call.script[1].exec = {1}
    /\ call.script[1].second.status = "ok"
    /\ call.script[1].second.toolCalls = 1
    /\ Len(call.out.bodies) = 2
    /\ Len(call.out.bodies[2].messages) = 3
    /\ call.out.result.ToolCalls = 1
    /\ call.out.err = NoError

\* the lines of a text: its pieces between one "\n" and the next
RECURSIVE Lines(_, _)
Lines(text, line) ==
    IF text = <<>> THEN <<line>>
    ELSE IF text[1] = "\n" THEN <<line>> \o Lines(Tail(text), <<>>)
    ELSE Lines(Tail(text), Append(line, text[1]))

\* C34 - RouterError accessors: GetErrors returns the recorded failures,
\* Unwrap their causes, as many and in the same order, and the text of
\* Error holds, after its heading, one line 'providerName: cause' per
\* recorded failure, in that order; without failures it is the one fixed
\* line.
C34_Accessors ==
    /\ call.op = "GetErrors" => call.out = calls.Errors
    /\ call.op = "Unwrap" =>
          /\ Len(call.out) = Len(calls.Errors)
          /\ \A k \in DOMAIN call.out : call.out[k] = calls.Errors[k].Error
    /\ call.op = "Error" =>
          LET lines == Lines(call.out, <<>>)
          IN  IF calls.Errors = <<>>
              THEN lines = <<<<"no provider available or all providers failed">>>>
              ELSE /\ Len(lines) = Len(calls.Errors) + 1
                   /\ lines[1] = <<"all providers failed:">>
                   /\ \A k \in DOMAIN calls.Errors :
                         lines[k + 1] = <<calls.Errors[k].ProviderName, ": ",
                                          calls.Errors[k].Error>>

\* three failures, the second a provider skipped for quota, were unwrapped
C34_Witness ==
    /\ call.op = "Unwrap"
    /\ Len(calls.Errors) = 3
    /\ calls.Errors[2].Error = ErrNoRemaining
    /\ call.out = <<ErrStatus, ErrNoRemaining, ErrGenerate>>

\* C35 - the daily limit is never exceeded: a provider with a daily limit
\* M > 0 never has more than M requests counted in requestsToday.
C35_DailyLimit ==
    \A i \in DOMAIN providers :
        providers[i].maxDailyRequests > 0 =>
            providers[i].requestsToday <= providers[i].maxDailyRequests

\* the provider that served the last call (the last send of its trace)
Server == call.options.call.trace[Len(call.options.call.trace)].idx

\* C36 - one unit per request: a successful call adds exactly one to
\* requestsToday of the provider that served it and, window resets apart,
\* leaves the quota counters of every other provider as they were, also
\* those of providers skipped or failed earlier in the call.
C36_OneUnitPerRequest ==
    (call.op = "called" /\ call.options.call.ret.err = NoError) =>
        \A i \in DOMAIN call.before :
            LET was == call.before[i]
                is == call.options.providers[i]
            IN  IF i = Server
                THEN is.requestsToday = resetDaily(was, now).requestsToday + 1
                ELSE \/ Counters(is) = Counters(was)
                     \/ Counters(is) = Counters(resetDaily(was, now))

OwnFailures(c) == SelectSeq(c.trace, LAMBDA e : ~e.ok)

\* C38 - failure lists are per call: under every interleaving of
\* concurrent calls on one router, the RouterError a call returns holds
\* exactly the failures of that call, in its order, at most one per
\* provider, and none that another call recorded.
C38_OwnFailuresOnly ==
    \A g \in Goroutines :
        (call[g].pc = "done" /\ call[g].ret.err = ErrRouter) =>
            LET own == OwnFailures(call[g])
                got == call[g].ret.Errors
            IN  /\ Len(got) = Len(own)
                /\ Len(got) <= Len(providers)
                /\ \A k \in DOMAIN got :
                      /\ got[k].ProviderName =
                            providerName(providers[own[k].idx], own[k].idx)
                      /\ got[k].Error = IF own[k].op = "check"
                                        THEN ErrNoRemaining ELSE own[k].err
                /\ \A a, b \in DOMAIN own : a < b => own[a].idx < own[b].idx

\* two calls ended with a RouterError each, with different causes for the
\* same provider
C38_Witness ==
    /\ \A g \in Goroutines :
          call[g].pc = "done" /\ call[g].ret.err = ErrRouter
    /\ call[1].ret.Errors[1].Error = ErrNoRemaining
    /\ call[2].ret.Errors[1].Error # ErrNoRemaining

\* the steps of the call in progress that were quota checks (op "check")
\* or sends (op "send") of provider i
StepsOf(op, i) ==
    {k \in DOMAIN call.trace : call.trace[k].op = op /\ call.trace[k].idx = i}

\* a call costs at most one quota check and one send per provider, and a
\* provider attempt at most two backend requests per model
WithinBounds ==
    /\ \A i \in 1..Len(providers) :
          /\ Cardinality(StepsOf("check", i)) <= 1
          /\ Cardinality(StepsOf("send", i)) <= 1
    /\ Len(call.trace) <= 2 * Len(providers)
    /\ \A k \in DOMAIN calls.attempts :
          /\ calls.attempts[k].reqs <= 2 * calls.attempts[k].models
          /\ calls.attempts[k].reqs <= 2 * calls.attempts[k].configured

\* C39 - termination: when every provider send and every tool execution
\* returns, every Query / QueryWithOptions call that was started returns,
\* after at most one quota check and one send per registered provider, and
\* every provider attempt made at most two backend requests per model.
C39_Termination ==
    /\ []WithinBounds
    /\ (call.pc \in {"check", "send"}) ~> (call.pc = "done")

\* a call over two providers returned after two checks and two sends, and
\* one of its attempts took two requests for its one model
C39_Witness ==
    /\ call.pc = "done"
    /\ Len(providers) = 2
    /\ \A i \in 1..2 : /\ Cardinality(StepsOf("check", i)) = 1
                        /\ Cardinality(StepsOf("send", i)) = 1
    /\ \E k \in DOMAIN calls.attempts :
          calls.attempts[k].reqs = 2 /\ calls.attempts[k].models = 1

====
